---- MODULE Spec2Model ----
(***************************************************************************)
(* The HugoPage reconciler of hugo-hoster (controllers package).           *)
(*                                                                         *)
(* State: the HugoPage and Setting stores, the store of child resources    *)
(* (CronJob, ConfigMap, Deployment, Service, Ingress), the work queue, and *)
(* for every reconcile key the position of the running Reconcile pass and  *)
(* its local variables.  A pass advances by one store call per step: a     *)
(* step is the store call and all the code that follows it up to the next  *)
(* store call, so that passes of distinct keys interleave at store calls   *)
(* and the environment can change the stores in between.                   *)
(*                                                                         *)
(* Strings that the code concatenates or rewrites (names, URLs, endpoint,  *)
(* bucket) are sequences of one-character strings; errors are sequences of *)
(* strings, the wrapping messages first and the cause last; a nil pointer  *)
(* is the record NilObj; a map[string]string with a fixed key set is a     *)
(* record, one with a variable key set is a set of <<key, value>> pairs.   *)
(***************************************************************************)
EXTENDS Integers, Sequences, FiniteSets, TLC

----------------------------------------------------------------------------
(* Bounds of the model.                                                    *)

\* passes started, over all reconcile keys
MaxPasses == 2
\* store calls that fail with an error other than not-found, in total
MaxFailures == 1
\* changes made by the environment (users, other actors), in total
MaxEnvSteps == 1

----------------------------------------------------------------------------
(* Values.                                                                 *)

NilObj == [nil |-> TRUE]

IsNil(x) == "nil" \in DOMAIN x

NoErr == <<>>

ErrNotFound == <<"NotFound">>

ErrAlreadyExists == <<"AlreadyExists">>

ErrInternal == <<"InternalError">>

\* k8serrors.IsNotFound as the code applies it: to the error a client call returned
IsNotFound(err) == err = ErrNotFound

\* errors.Wrap: nil for a nil cause
Wrap(err, msg) == IF err = NoErr THEN NoErr ELSE <<msg>> \o err

\* strings.ReplaceAll for a one-character pattern and replacement
ReplaceAll(s, old, new) == [i \in 1..Len(s) |-> IF s[i] = old THEN new ELSE s[i]]

settingName == "settings"

OneMinute == 60

\* the controller is built without options: one worker runs the passes of all keys
MaxConcurrentReconciles == 1

Namespaces == {"ns1"}

SiteNames == {<<"a">>, <<"b">>}

Keys == [Namespace : Namespaces, Name : SiteNames]

\* the keys whose Site and children the environment changes while the controller runs;
\* the Site of every other key exists from the start and stays as it is
EnvKeys == {[Namespace |-> "ns1", Name |-> <<"a">>]}

\* HugoPageSpec values the environment may apply
PageSpecs ==
    { [Repository |-> "repo1", URL |-> <<"d", ".", "e">>, CronInterval |-> "*/5 * * * *"],
      [Repository |-> "repo2", URL |-> <<"f", ".", "g">>, CronInterval |-> "0 * * * *"] }

\* SettingSpec values the environment may apply
SettingSpecs ==
    { [TLS |-> [Enable |-> FALSE, Annotations |-> {}],
       IngressClassName |-> "nginx",
       S3Config |-> [Endpoint |-> <<"s", "3">>, BucketName |-> <<"b", "k">>,
                     SecretName |-> "s3-secret", AccessKeyIDRef |-> "AccessKeyId",
                     AccessKeyRef |-> "AccessKey"],
       ProxyURL |-> <<>>,
       NginxProxyReplica |-> 1],
      [TLS |-> [Enable |-> TRUE, Annotations |-> {<<"cert-manager.io/issuer", "letsencrypt">>}],
       IngressClassName |-> "nginx",
       S3Config |-> [Endpoint |-> <<"s", "3">>, BucketName |-> <<"b", "k">>,
                     SecretName |-> "s3-secret", AccessKeyIDRef |-> "AccessKeyId",
                     AccessKeyRef |-> "AccessKey"],
       ProxyURL |-> <<"c", "d", "n">>,
       NginxProxyReplica |-> 2] }

HugoPage(key, spec) == [Name |-> key.Name, Namespace |-> key.Namespace, Spec |-> spec]

Setting(ns, spec) == [Name |-> settingName, Namespace |-> ns, Spec |-> spec]

----------------------------------------------------------------------------
(* Names, labels and desired state of the five child kinds.                *)

\* Reconcile with the calls of upsertConfigMap and upsertPageNginxProxy exchanged
UpsertOrderDeploymentBeforeConfigMap ==
    <<"CronJob", "Deployment", "ConfigMap", "Service", "Ingress">>

\* the order in which Reconcile calls the upserts
UpsertOrder == <<"CronJob", "ConfigMap", "Deployment", "Service", "Ingress">>

Kinds == {UpsertOrder[i] : i \in 1..Len(UpsertOrder)}

\* labels that do not name the HugoPage
makeLabelsWithoutPage(page, component) ==
    [app |-> "hugo-hoster", component |-> component, page |-> <<>>]

makeLabels(page, component) ==
    [app |-> "hugo-hoster", component |-> component, page |-> page.Name]

\* one Deployment name for every HugoPage
deploymentNameWithoutSite(page) ==
    <<"n", "g", "i", "n", "x", "-", "p", "r", "o", "x", "y">>

\* fmt.Sprintf("nginx-proxy-%s", page.Name)
deploymentName(page) ==
    <<"n", "g", "i", "n", "x", "-", "p", "r", "o", "x", "y", "-">> \o page.Name

\* one Service name for every HugoPage
serviceNameWithoutSite(page) ==
    <<"n", "g", "i", "n", "x", "-", "p", "r", "o", "x", "y", "-", "s", "v", "c">>

\* fmt.Sprintf("nginx-proxy-%s-svc", page.Name)
serviceName(page) ==
    <<"n", "g", "i", "n", "x", "-", "p", "r", "o", "x", "y", "-">> \o page.Name
        \o <<"-", "s", "v", "c">>

\* one ConfigMap name for every HugoPage
configMapNameWithoutSite(page) ==
    <<"n", "g", "i", "n", "x", "-", "p", "r", "o", "x", "y", "-", "c", "o", "n", "f">>

\* fmt.Sprintf("nginx-proxy-conf-%s", page.Name)
configMapName(page) ==
    <<"n", "g", "i", "n", "x", "-", "p", "r", "o", "x", "y", "-", "c", "o", "n", "f", "-">>
        \o page.Name

\* the name under which each upsert reads and writes its child
ChildName(kind, page) ==
    CASE kind = "CronJob" -> page.Name
      [] kind = "ConfigMap" -> configMapName(page)
      [] kind = "Deployment" -> deploymentName(page)
      [] kind = "Service" -> serviceName(page)
      [] kind = "Ingress" -> page.Name

\* metav1.ObjectMeta{Name: .., Namespace: .., Labels: ..}: every other field zero
ObjectMeta(name, namespace, labels) ==
    [Name |-> name, Namespace |-> namespace, Labels |-> labels,
     Annotations |-> {}, OwnerReferences |-> <<>>]

ZeroMeta ==
    [Name |-> <<>>, Namespace |-> "", Labels |-> [app |-> "", component |-> "", page |-> <<>>],
     Annotations |-> {}, OwnerReferences |-> <<>>]

\* &batchv1.CronJob{}, &apiv1.ConfigMap{}, ...: the object a Get that fails leaves untouched
ZeroObject(kind) ==
    IF kind = "ConfigMap"
    THEN [Kind |-> kind, ObjectMeta |-> ZeroMeta, Data |-> {}]
    ELSE [Kind |-> kind, ObjectMeta |-> ZeroMeta, Spec |-> [TLS |-> <<>>]]

ControllerRef(owner) ==
    [Kind |-> "HugoPage", Name |-> owner.Name, Controller |-> TRUE, BlockOwnerDeletion |-> TRUE]

\* no owner reference is set
SetControllerReferenceOmitted(owner, obj) == obj

\* ctrl.SetControllerReference(page, obj, scheme); its error (the object already has
\* another controller) is dropped by every caller, the object is then left as it is
SetControllerReference(owner, obj) ==
    LET refs == obj.ObjectMeta.OwnerReferences
        ref == ControllerRef(owner)
    IN  IF \E i \in 1..Len(refs) : refs[i].Controller /\ refs[i] # ref
        THEN obj
        ELSE IF \E i \in 1..Len(refs) : refs[i] = ref
             THEN obj
             ELSE [obj EXCEPT !.ObjectMeta.OwnerReferences = Append(refs, ref)]

\* the CronJob spec with the effective endpoint of the proxy as S3_ENDPOINT
cronJobSpecWithProxyURL(page, settings) ==
    [Schedule |-> page.Spec.CronInterval,
     ConcurrencyPolicy |-> "Forbid",
     StartingDeadlineSeconds |-> 100,
     Suspend |-> FALSE,
     SuccessfulJobsHistoryLimit |-> 3,
     FailedJobsHistoryLimit |-> 10,
     RestartPolicy |-> "OnFailure",
     Container |-> "page-builder",
     Image |-> "ghcr.io/hugo-hoster/page_builder:main",
     Env |-> [REPO_URL |-> page.Spec.Repository,
              PAGE_NAME |-> page.Name,
              S3_BUCKET_NAME |-> settings.Spec.S3Config.BucketName,
              AWS_ACCESS_KEY_ID |-> [Secret |-> settings.Spec.S3Config.SecretName,
                                     Key |-> settings.Spec.S3Config.AccessKeyIDRef],
              AWS_SECRET_ACCESS_KEY |-> [Secret |-> settings.Spec.S3Config.SecretName,
                                         Key |-> settings.Spec.S3Config.AccessKeyRef],
              S3_ENDPOINT |-> IF settings.Spec.ProxyURL = <<>>
                              THEN settings.Spec.S3Config.Endpoint
                              ELSE settings.Spec.ProxyURL]]

cronJobSpec(page, settings) ==
    [Schedule |-> page.Spec.CronInterval,
     ConcurrencyPolicy |-> "Forbid",
     StartingDeadlineSeconds |-> 100,
     Suspend |-> FALSE,
     SuccessfulJobsHistoryLimit |-> 3,
     FailedJobsHistoryLimit |-> 10,
     RestartPolicy |-> "OnFailure",
     Container |-> "page-builder",
     Image |-> "ghcr.io/hugo-hoster/page_builder:main",
     Env |-> [REPO_URL |-> page.Spec.Repository,
              PAGE_NAME |-> page.Name,
              S3_BUCKET_NAME |-> settings.Spec.S3Config.BucketName,
              AWS_ACCESS_KEY_ID |-> [Secret |-> settings.Spec.S3Config.SecretName,
                                     Key |-> settings.Spec.S3Config.AccessKeyIDRef],
              AWS_SECRET_ACCESS_KEY |-> [Secret |-> settings.Spec.S3Config.SecretName,
                                         Key |-> settings.Spec.S3Config.AccessKeyRef],
              S3_ENDPOINT |-> settings.Spec.S3Config.Endpoint]]

\* upsertPageBuilderCronJob that sets the spec only of a CronJob it did not find
upsertPageBuilderCronJobObjectKeepingSpec(builderCronJob, page, settings) ==
    SetControllerReference(page,
        [builderCronJob EXCEPT
            !.ObjectMeta = ObjectMeta(page.Name, page.Namespace, makeLabels(page, "builder")),
            !.Spec = IF builderCronJob = ZeroObject("CronJob") THEN cronJobSpec(page, settings)
                     ELSE @])

\* the object upsertPageBuilderCronJob hands to Create/Update, from the object Get filled
upsertPageBuilderCronJobObject(builderCronJob, page, settings) ==
    SetControllerReference(page,
        [builderCronJob EXCEPT
            !.ObjectMeta = ObjectMeta(page.Name, page.Namespace, makeLabels(page, "builder")),
            !.Spec = cronJobSpec(page, settings)])

\* template.Execute of nginxConfTemplate: the text around the three substitutions is
\* kept as two tokens
nginxConfTemplate(values) ==
    <<"user nginx; ... location / { rewrite ...; proxy_pass ">>
        \o values.S3_URL \o <<"/">> \o values.BUCKET_NAME \o <<"/">> \o values.PAGE_NAME
        \o <<"/", "; proxy_redirect off; ... }">>

\* the storage endpoint, whether or not ProxyURL is set
proxyUrlIgnoringProxyURL(settings) == settings.Spec.S3Config.Endpoint

\* proxyUrl := settings.Spec.ProxyURL; if proxyUrl == "" { proxyUrl = Endpoint }
proxyUrl(settings) ==
    IF settings.Spec.ProxyURL = <<>> THEN settings.Spec.S3Config.Endpoint
    ELSE settings.Spec.ProxyURL

upsertConfigMapObject(configMap, page, settings) ==
    SetControllerReference(page,
        [configMap EXCEPT
            !.ObjectMeta = ObjectMeta(configMapName(page), page.Namespace,
                                      makeLabels(page, "nginx-proxy")),
            !.Data = {<<"nginx.conf",
                        nginxConfTemplate([S3_URL |-> proxyUrl(settings),
                                           BUCKET_NAME |-> settings.Spec.S3Config.BucketName,
                                           PAGE_NAME |-> page.Name])>>}])

deploymentSpec(page, settings) ==
    [Selector |-> makeLabels(page, "nginx-proxy"),
     Replicas |-> settings.Spec.NginxProxyReplica,
     TemplateLabels |-> makeLabels(page, "nginx-proxy"),
     Container |-> "nginx",
     Image |-> "nginx:alpine",
     ContainerPort |-> 80,
     VolumeMount |-> [Name |-> "nginx-config", MountPath |-> "/etc/nginx/nginx.conf",
                      SubPath |-> "nginx.conf", ReadOnly |-> TRUE],
     Volume |-> [Name |-> "nginx-config", ConfigMap |-> configMapName(page)]]

upsertPageNginxProxyObject(deployment, page, settings) ==
    SetControllerReference(page,
        [deployment EXCEPT
            !.ObjectMeta = ObjectMeta(deploymentName(page), page.Namespace,
                                      makeLabels(page, "nginx-proxy")),
            !.Spec = deploymentSpec(page, settings)])

serviceSpec(page) ==
    [Selector |-> makeLabels(page, "nginx-proxy"),
     Ports |-> <<[Name |-> "nginx", Protocol |-> "TCP", Port |-> 80, TargetPort |-> 80]>>]

\* upsertNginxProxyService that leaves a Service it found without a controller reference
\* to the page as it is
upsertNginxProxyServiceObjectIfOwned(service, page) ==
    IF /\ service # ZeroObject("Service")
       /\ \A i \in 1..Len(service.ObjectMeta.OwnerReferences) :
             service.ObjectMeta.OwnerReferences[i] # ControllerRef(page)
    THEN service
    ELSE SetControllerReference(page,
            [service EXCEPT
                !.ObjectMeta = ObjectMeta(serviceName(page), page.Namespace,
                                          makeLabels(page, "nginx-proxy")),
                !.Spec = serviceSpec(page)])

upsertNginxProxyServiceObject(service, page) ==
    SetControllerReference(page,
        [service EXCEPT
            !.ObjectMeta = ObjectMeta(serviceName(page), page.Namespace,
                                      makeLabels(page, "nginx-proxy")),
            !.Spec = serviceSpec(page)])

\* networkingv1.IngressSpec{IngressClassName: .., Rules: ..}: the TLS list is nil
ingressSpec(page, settings) ==
    [IngressClassName |-> settings.Spec.IngressClassName,
     Rules |-> <<[Host |-> page.Spec.URL, Path |-> "/", PathType |-> "Prefix",
                  Backend |-> [Name |-> serviceName(page), Port |-> 80]]>>,
     TLS |-> <<>>]

\* the TLS entry and the annotations attached whether or not TLS is enabled
ingressTLSAlways(ingress, page, settings) ==
    [ingress EXCEPT
        !.Spec.TLS = <<[Hosts |-> <<page.Spec.URL>>,
                        SecretName |-> ReplaceAll(page.Name, ".", "-")
                            \o <<"-", "p", "a", "g", "e", "-", "s", "e", "c", "r", "e", "t">>]>>,
        !.ObjectMeta.Annotations =
            {a \in @ : \A b \in settings.Spec.TLS.Annotations : b[1] # a[1]}
                \cup settings.Spec.TLS.Annotations]

\* the block under "if settings.Spec.TLS.Enable"
ingressTLS(ingress, page, settings) ==
    IF settings.Spec.TLS.Enable
    THEN [ingress EXCEPT
            !.Spec.TLS = <<[Hosts |-> <<page.Spec.URL>>,
                            SecretName |-> ReplaceAll(page.Name, ".", "-")
                                \o <<"-", "p", "a", "g", "e", "-", "s", "e", "c", "r", "e", "t">>]>>,
            !.ObjectMeta.Annotations =
                {a \in @ : \A b \in settings.Spec.TLS.Annotations : b[1] # a[1]}
                    \cup settings.Spec.TLS.Annotations]
    ELSE ingress

\* upsertPageIngress that appends its TLS entry to the TLS list of the Ingress it read
upsertPageIngressObjectAppendingTLS(ingress, page, settings) ==
    LET fresh == ingressTLS([ingress EXCEPT
                                !.ObjectMeta = ObjectMeta(page.Name, page.Namespace,
                                                          makeLabels(page, "nginx-proxy")),
                                !.Spec = ingressSpec(page, settings)],
                            page, settings)
    IN  SetControllerReference(page,
            [fresh EXCEPT !.Spec.TLS = ingress.Spec.TLS \o fresh.Spec.TLS])

upsertPageIngressObject(ingress, page, settings) ==
    SetControllerReference(page,
        ingressTLS([ingress EXCEPT
                        !.ObjectMeta = ObjectMeta(page.Name, page.Namespace,
                                                  makeLabels(page, "nginx-proxy")),
                        !.Spec = ingressSpec(page, settings)],
                   page, settings))

\* whether the upsert of a kind dereferences settings while it builds its object
UsesSettings(kind) == kind # "Service"

\* the object an upsert builds between its Get and its Create/Update
UpsertObject(kind, existing, page, settings) ==
    CASE kind = "CronJob" -> upsertPageBuilderCronJobObject(existing, page, settings)
      [] kind = "ConfigMap" -> upsertConfigMapObject(existing, page, settings)
      [] kind = "Deployment" -> upsertPageNginxProxyObject(existing, page, settings)
      [] kind = "Service" -> upsertNginxProxyServiceObject(existing, page)
      [] kind = "Ingress" -> upsertPageIngressObject(existing, page, settings)

----------------------------------------------------------------------------
(* State.                                                                  *)

VARIABLES
    pages,          \* HugoPage store: key -> HugoPage or NilObj
    settingsStore,  \* Setting store: namespace -> the Setting named settingName or NilObj
    children,       \* store of child resources: a set of objects
    queue,          \* work queue of the controller: keys waiting for a pass
    pc,             \* key -> position of the Reconcile pass of that key
    local,          \* key -> local variables of that pass, with the log of its store calls
    last,           \* key -> summary of the pass that ended last
    prev,           \* key -> summary of the pass that ended before that
    inputsChanged,  \* key -> the environment changed Site or Setting: since the last pass
                    \* of the key ended, during the pass of the key that started last
    written,        \* <<kind, namespace, name, key>> of the children passes have written
    crashed,        \* the process has terminated
    passes,         \* passes started so far
    failures,       \* store calls that failed so far
    envSteps,       \* changes the environment made so far
    probe,          \* inputs and result of a derivation applied on its own
    active,         \* value of the gauge hugopage_active
    reconcilerDuration  \* samples of the histogram hugopage_reconciler_duration: labels -> count

vars == <<pages, settingsStore, children, queue, pc, local, last, prev, inputsChanged,
          written, crashed, passes, failures, envSteps, probe, active, reconcilerDuration>>

\* the final return of Reconcile with the result of the failure branches
ResultSuccessWithRequeue == [Requeue |-> TRUE, RequeueAfter |-> OneMinute, err |-> NoErr]

\* ctrl.Result{} with a nil error
ResultSuccess == [Requeue |-> FALSE, RequeueAfter |-> 0, err |-> NoErr]

\* the failure branches returning the error with the empty result
ResultRequeueWithoutRetry(err) == [Requeue |-> FALSE, RequeueAfter |-> 0, err |-> NoErr]

\* ctrl.Result{Requeue: true, RequeueAfter: 1 * time.Minute}, err
ResultRequeue(err) == [Requeue |-> TRUE, RequeueAfter |-> OneMinute, err |-> err]

\* the label values of a sample: WithLabelValues("pagename", req.Name, req.Namespace)
LabelValues(key) == <<"pagename", key.Name, key.Namespace>>

HistogramLabels == {LabelValues(key) : key \in Keys}

\* the deferred function recording two samples
ObserveTwice(key) == [reconcilerDuration EXCEPT ![LabelValues(key)] = @ + 2]

\* the deferred function of Reconcile: one sample under the labels of the request; the
\* duration itself is not kept
Observe(key) == [reconcilerDuration EXCEPT ![LabelValues(key)] = @ + 1]

\* no derivation is applied on its own while the controller runs
NoProbe == [op |-> "none", a |-> NilObj, b |-> NilObj, settings |-> NilObj, out |-> NilObj]

ZeroLocal ==
    [page |-> NilObj, pageErr |-> NoErr, settings |-> NilObj, settingsErr |-> NoErr,
     k |-> 0, clientErr |-> NoErr, obj |-> NilObj, calls |-> <<>>, ret |-> <<>>]

NoPass ==
    [n |-> 0, end |-> "none", result |-> ResultSuccess, page |-> NilObj, pageErr |-> NoErr,
     settings |-> NilObj, settingsErr |-> NoErr, calls |-> <<>>, ret |-> <<>>,
     children |-> {}, inputsChanged |-> FALSE, changedDuring |-> FALSE]

\* the store key of a child object
ChildId(obj) == <<obj.Kind, obj.ObjectMeta.Namespace, obj.ObjectMeta.Name>>

\* client.Get on a child kind: the objects stored under the key
Stored(ch, kind, namespace, name) == {o \in ch : ChildId(o) = <<kind, namespace, name>>}

\* the children stored under the names derived from a key
ChildrenOf(ch, key) ==
    {o \in ch : \E kind \in Kinds :
        ChildId(o) = <<kind, key.Namespace, ChildName(kind, [Name |-> key.Name])>>}

Init ==
    /\ pages \in {f \in [Keys -> {NilObj} \cup {HugoPage(k, sp) : k \in Keys, sp \in PageSpecs}] :
                    \A key \in Keys :
                        IF key \in EnvKeys
                        THEN f[key] \in {NilObj} \cup {HugoPage(key, sp) : sp \in PageSpecs}
                        ELSE f[key] = HugoPage(key, CHOOSE sp \in PageSpecs :
                                                        sp.Repository = "repo1")}
    /\ settingsStore \in
          {f \in [Namespaces -> {NilObj} \cup {Setting(n, sp) : n \in Namespaces,
                                                                  sp \in SettingSpecs}] :
              \A ns \in Namespaces :
                  f[ns] \in {NilObj} \cup {Setting(ns, sp) : sp \in SettingSpecs}}
    /\ children = {}
    /\ queue = {key \in Keys : ~IsNil(pages[key])}
    /\ pc = [key \in Keys |-> "idle"]
    /\ local = [key \in Keys |-> ZeroLocal]
    /\ last = [key \in Keys |-> NoPass]
    /\ prev = [key \in Keys |-> NoPass]
    /\ inputsChanged = [key \in Keys |-> [since |-> FALSE, during |-> FALSE]]
    /\ written = {}
    /\ crashed = FALSE
    /\ passes = 0
    /\ failures = 0
    /\ envSteps = 0
    /\ probe = NoProbe
    /\ active = 0
    /\ reconcilerDuration = [l \in HistogramLabels |-> 0]

----------------------------------------------------------------------------
(* How a pass ends, and how Reconcile goes from one upsert to the next.    *)

Summary(key, loc, end, res, ch) ==
    [n |-> passes, end |-> end, result |-> res, page |-> loc.page,
     pageErr |-> loc.pageErr, settings |-> loc.settings, settingsErr |-> loc.settingsErr,
     calls |-> loc.calls, ret |-> loc.ret, children |-> ChildrenOf(ch, key),
     inputsChanged |-> inputsChanged[key].since,
     changedDuring |-> inputsChanged[key].during]

\* a panic that ends the pass only: the worker recovers and puts the key back on the queue
PanicRecovered(key, loc, ch) ==
    /\ pc' = [pc EXCEPT ![key] = "idle"]
    /\ local' = [local EXCEPT ![key] = loc]
    /\ prev' = [prev EXCEPT ![key] = last[key]]
    /\ last' = [last EXCEPT ![key] = Summary(key, loc, "panicked", ResultSuccess, ch)]
    /\ inputsChanged' = [inputsChanged EXCEPT ![key].since = FALSE]
    /\ queue' = queue \cup {key}
    /\ reconcilerDuration' = Observe(key)
    /\ UNCHANGED crashed

\* a panic (nil dereference, or zap's Panicw in RecordPanic) unwinds Reconcile and
\* terminates the process
Panic(key, loc, ch) ==
    /\ crashed' = TRUE
    /\ reconcilerDuration' = Observe(key)
    /\ pc' = [pc EXCEPT ![key] = "panicked"]
    /\ local' = [local EXCEPT ![key] = loc]
    /\ prev' = [prev EXCEPT ![key] = last[key]]
    /\ last' = [last EXCEPT ![key] = Summary(key, loc, "panicked", ResultSuccess, ch)]
    /\ inputsChanged' = [inputsChanged EXCEPT ![key].since = FALSE]
    /\ UNCHANGED queue

\* Reconcile returns res; the controller puts the key back on the queue when the
\* result asks for it or carries an error
Return(key, loc, res, ch) ==
    /\ pc' = [pc EXCEPT ![key] = "idle"]
    /\ local' = [local EXCEPT ![key] = loc]
    /\ prev' = [prev EXCEPT ![key] = last[key]]
    /\ last' = [last EXCEPT ![key] = Summary(key, loc, "returned", res, ch)]
    /\ inputsChanged' = [inputsChanged EXCEPT ![key].since = FALSE]
    /\ queue' = IF res.Requeue \/ res.err # NoErr THEN queue \cup {key} ELSE queue
    /\ reconcilerDuration' = Observe(key)
    /\ UNCHANGED crashed

\* the upserts called with an empty HugoPage of the requested name when none was found
EnterUpsertWithEmptyPage(key, loc, k, ch) ==
    /\ pc' = [pc EXCEPT ![key] = "get"]
    /\ local' = [local EXCEPT ![key] =
                    [loc EXCEPT !.k = k, !.clientErr = NoErr, !.obj = NilObj,
                                !.page = IF IsNil(loc.page)
                                         THEN HugoPage(key, [Repository |-> "", URL |-> <<>>,
                                                             CronInterval |-> ""])
                                         ELSE loc.page]]
    /\ UNCHANGED <<last, prev, inputsChanged, queue, crashed, reconcilerDuration>>

\* the call of the k-th upsert up to its Get: page.Name is evaluated for the key of the Get
EnterUpsert(key, loc, k, ch) ==
    IF IsNil(loc.page)
    THEN Panic(key, loc, ch)
    ELSE /\ pc' = [pc EXCEPT ![key] = "get"]
         /\ local' = [local EXCEPT ![key] = [loc EXCEPT !.k = k, !.clientErr = NoErr,
                                                        !.obj = NilObj]]
         /\ UNCHANGED <<last, prev, inputsChanged, queue, crashed, reconcilerDuration>>

\* Reconcile that returns after the upsert of the Service: the Ingress is never upserted
ReconcileNextWithoutIngress(k, err) ==
    IF err # NoErr THEN "requeue"
    ELSE IF k < Len(UpsertOrder) - 1 THEN "next" ELSE "done"

\* what Reconcile does with the error the k-th upsert returned
ReconcileNext(k, err) ==
    IF err # NoErr THEN "requeue"
    ELSE IF k < Len(UpsertOrder) THEN "next" ELSE "done"

\* Reconcile fetching the Setting again before it calls the next upsert
AfterUpsertFetchingSettingAgain(key, loc, obj, err, ch) ==
    LET loc2 == [loc EXCEPT !.ret = Append(@, [kind |-> UpsertOrder[loc.k], obj |-> obj,
                                               err |-> err]),
                            !.settings = IF IsNil(settingsStore[key.Namespace]) THEN @
                                         ELSE settingsStore[key.Namespace]]
        next == ReconcileNext(loc.k, err)
    IN  CASE next = "requeue" -> Return(key, loc2, ResultRequeue(err), ch)
          [] next = "next" -> EnterUpsert(key, loc2, loc.k + 1, ch)
          [] next = "done" -> Return(key, loc2, ResultSuccess, ch)

\* the k-th upsert returns (obj, err): Reconcile returns or calls the next upsert
AfterUpsert(key, loc, obj, err, ch) ==
    LET loc2 == [loc EXCEPT !.ret = Append(@, [kind |-> UpsertOrder[loc.k], obj |-> obj,
                                               err |-> err])]
        next == ReconcileNext(loc.k, err)
    IN  CASE next = "requeue" -> Return(key, loc2, ResultRequeue(err), ch)
          [] next = "next" -> EnterUpsert(key, loc2, loc.k + 1, ch)
          [] next = "done" -> Return(key, loc2, ResultSuccess, ch)

----------------------------------------------------------------------------
(* The Reconcile pass.                                                     *)

\* the controller takes a key off the queue and calls Reconcile; one pass per key at a time
StartReconcile(key) ==
    /\ ~crashed
    /\ key \in queue
    /\ pc[key] = "idle"
    /\ passes < MaxPasses
    /\ Cardinality({k \in Keys : pc[k] # "idle"}) < MaxConcurrentReconciles
    /\ queue' = queue \ {key}
    /\ pc' = [pc EXCEPT ![key] = "getPage"]
    /\ local' = [local EXCEPT ![key] = ZeroLocal]
    /\ passes' = passes + 1
    /\ inputsChanged' = [inputsChanged EXCEPT ![key].during = FALSE]
    /\ UNCHANGED <<pages, settingsStore, children, last, prev, written, crashed, failures,
                   envSteps, probe, active, reconcilerDuration>>

\* a pass that stamps the HugoPage it fetched and writes it back
GetPageWritingBack(key) ==
    /\ ~crashed
    /\ pc[key] = "getPage"
    /\ \E fail \in BOOLEAN :
          /\ fail => failures < MaxFailures
          /\ failures' = IF fail THEN failures + 1 ELSE failures
          /\ LET err == IF fail THEN ErrInternal
                        ELSE IF IsNil(pages[key]) THEN ErrNotFound ELSE NoErr
                 page == IF err = NoErr THEN pages[key] ELSE NilObj
             IN  /\ local' = [local EXCEPT ![key].page = page, ![key].pageErr = err]
                 /\ pages' = IF err = NoErr
                             THEN [pages EXCEPT ![key].Spec.Repository = "seen"]
                             ELSE pages
    /\ pc' = [pc EXCEPT ![key] = "getSettings"]
    /\ UNCHANGED <<settingsStore, children, queue, last, prev, inputsChanged,
                   written, crashed, passes, envSteps, probe, active, reconcilerDuration>>

\* page, err := r.pageClient.GetNamespaced(..): both branches of the error check only log
GetPage(key) ==
    /\ ~crashed
    /\ pc[key] = "getPage"
    /\ \E fail \in BOOLEAN :
          /\ fail => failures < MaxFailures
          /\ failures' = IF fail THEN failures + 1 ELSE failures
          /\ LET err == IF fail THEN ErrInternal
                        ELSE IF IsNil(pages[key]) THEN ErrNotFound ELSE NoErr
                 page == IF err = NoErr THEN pages[key] ELSE NilObj
             IN  local' = [local EXCEPT ![key].page = page, ![key].pageErr = err]
    /\ pc' = [pc EXCEPT ![key] = "getSettings"]
    /\ UNCHANGED <<pages, settingsStore, children, queue, last, prev, inputsChanged,
                   written, crashed, passes, envSteps, probe, active, reconcilerDuration>>

\* the check on the Setting written like the check on the HugoPage: not-found only logs
SettingsUnusableUnlessNotFound(settings, err) == err # NoErr /\ ~IsNotFound(err)

\* the condition under which Reconcile calls RecordPanic
SettingsUnusable(settings, err) == err # NoErr \/ IsNil(settings)

\* settings, err := r.settingClient.GetNameNamespace(..), the panic when it fails, and
\* the call of the first upsert
GetSettings(key) ==
    /\ ~crashed
    /\ pc[key] = "getSettings"
    /\ \E fail \in BOOLEAN :
          /\ fail => failures < MaxFailures
          /\ failures' = IF fail THEN failures + 1 ELSE failures
          /\ LET err == IF fail THEN ErrInternal
                        ELSE IF IsNil(settingsStore[key.Namespace]) THEN ErrNotFound
                        ELSE NoErr
                 settings == IF err = NoErr THEN settingsStore[key.Namespace] ELSE NilObj
                 loc == [local[key] EXCEPT !.settings = settings, !.settingsErr = err]
             IN  IF SettingsUnusable(settings, err)
                 THEN Panic(key, loc, children)
                 ELSE EnterUpsert(key, loc, 1, children)
    /\ UNCHANGED <<pages, settingsStore, children, written, passes, envSteps, probe,
                   active>>

\* template.New("nginx.conf").Parse(nginxConfTemplate): the template is well-formed
templateErr == NoErr

\* what an upsert returns when its Get failed with an error other than not-found:
\* upsertConfigMap wraps err, the result of the template parse, instead of clientErr
GetFailureReturn(kind, clientErr) ==
    IF kind = "ConfigMap"
    THEN Wrap(templateErr, "Failed to get ConfigMap")
    ELSE Wrap(clientErr, "Failed to get " \o kind)

\* the branch an upsert takes on the error of its Get
UpsertBranch(clientErr) ==
    IF clientErr # NoErr /\ IsNotFound(clientErr) THEN "create"
    ELSE IF clientErr # NoErr THEN "fail"
    ELSE "update"

\* err := r.client.Get(..) of the current upsert, the construction of the object and
\* the branch on err
UpsertGet(key) ==
    /\ ~crashed
    /\ pc[key] = "get"
    /\ \E fail \in BOOLEAN :
          /\ fail => failures < MaxFailures
          /\ failures' = IF fail THEN failures + 1 ELSE failures
          /\ LET loc == local[key]
                 kind == UpsertOrder[loc.k]
                 found == Stored(children, kind, loc.page.Namespace, ChildName(kind, loc.page))
                 clientErr == IF fail THEN ErrInternal
                              ELSE IF found = {} THEN ErrNotFound ELSE NoErr
                 existing == IF clientErr = NoErr THEN CHOOSE o \in found : TRUE
                             ELSE ZeroObject(kind)
                 logged == [loc EXCEPT !.clientErr = clientErr,
                                       !.calls = Append(@, [kind |-> kind, op |-> "Get",
                                                            err |-> clientErr])]
             IN  IF UsesSettings(kind) /\ IsNil(loc.settings)
                 THEN Panic(key, logged, children)
                 ELSE LET loc2 == [logged EXCEPT
                                     !.obj = UpsertObject(kind, existing, loc.page, loc.settings)]
                          branch == UpsertBranch(clientErr)
                      IN  CASE branch = "fail" ->
                                  AfterUpsert(key, loc2, NilObj,
                                              GetFailureReturn(kind, clientErr), children)
                            [] OTHER ->
                                  /\ pc' = [pc EXCEPT ![key] = branch]
                                  /\ local' = [local EXCEPT ![key] = loc2]
                                  /\ UNCHANGED <<last, prev, inputsChanged, queue, crashed,
                                                 reconcilerDuration>>
    /\ UNCHANGED <<pages, settingsStore, children, written, passes, envSteps, probe,
                   active>>

\* r.client.Create(..) on the not-found branch; on success the code goes on to Update
UpsertCreate(key) ==
    /\ ~crashed
    /\ pc[key] = "create"
    /\ \E fail \in BOOLEAN :
          /\ fail => failures < MaxFailures
          /\ failures' = IF fail THEN failures + 1 ELSE failures
          /\ LET loc == local[key]
                 kind == UpsertOrder[loc.k]
                 id == ChildId(loc.obj)
                 err == IF fail THEN ErrInternal
                        ELSE IF Stored(children, id[1], id[2], id[3]) # {} THEN ErrAlreadyExists
                        ELSE NoErr
                 ch == IF err = NoErr THEN children \cup {loc.obj} ELSE children
                 loc2 == [loc EXCEPT !.calls = Append(@, [kind |-> kind, op |-> "Create",
                                                          err |-> err])]
             IN  /\ children' = ch
                 /\ written' = IF err = NoErr THEN written \cup {<<id[1], id[2], id[3], key>>}
                               ELSE written
                 /\ IF err # NoErr
                    THEN AfterUpsert(key, loc2, NilObj,
                                     Wrap(err, "Failed to create new " \o kind), ch)
                    ELSE /\ pc' = [pc EXCEPT ![key] = "update"]
                         /\ local' = [local EXCEPT ![key] = loc2]
                         /\ UNCHANGED <<last, prev, inputsChanged, queue, crashed,
                                        reconcilerDuration>>
    /\ UNCHANGED <<pages, settingsStore, passes, envSteps, probe, active>>

\* r.client.Update(..), the return of the upsert and what Reconcile does next
UpsertUpdate(key) ==
    /\ ~crashed
    /\ pc[key] = "update"
    /\ \E fail \in BOOLEAN :
          /\ fail => failures < MaxFailures
          /\ failures' = IF fail THEN failures + 1 ELSE failures
          /\ LET loc == local[key]
                 kind == UpsertOrder[loc.k]
                 id == ChildId(loc.obj)
                 old == Stored(children, id[1], id[2], id[3])
                 err == IF fail THEN ErrInternal
                        ELSE IF old = {} THEN ErrNotFound ELSE NoErr
                 ch == IF err = NoErr THEN (children \ old) \cup {loc.obj} ELSE children
                 loc2 == [loc EXCEPT !.calls = Append(@, [kind |-> kind, op |-> "Update",
                                                          err |-> err])]
             IN  /\ children' = ch
                 /\ written' = IF err = NoErr THEN written \cup {<<id[1], id[2], id[3], key>>}
                               ELSE written
                 /\ IF err # NoErr
                    THEN AfterUpsert(key, loc2, NilObj, Wrap(err, "Failed to update " \o kind), ch)
                    ELSE AfterUpsert(key, loc2, loc.obj, NoErr, ch)
    /\ UNCHANGED <<pages, settingsStore, passes, envSteps, probe, active>>

----------------------------------------------------------------------------
(* The environment: users who apply and delete Sites and Settings, other   *)
(* actors who create resources, the garbage collector, the resync timer.   *)

EnvUnchanged ==
    UNCHANGED <<pc, local, last, prev, crashed, passes, failures, probe, active,
                reconcilerDuration>>

\* a user creates the HugoPage or changes its spec; the watch puts its key on the queue
ApplySite(key, spec) ==
    /\ envSteps < MaxEnvSteps
    /\ pages[key] # HugoPage(key, spec)
    /\ pages' = [pages EXCEPT ![key] = HugoPage(key, spec)]
    /\ queue' = queue \cup {key}
    /\ inputsChanged' = [inputsChanged EXCEPT ![key] = [since |-> TRUE, during |-> TRUE]]
    /\ envSteps' = envSteps + 1
    /\ UNCHANGED <<settingsStore, children, written>>
    /\ EnvUnchanged

\* a user deletes the HugoPage; the garbage collector removes the resources that carry
\* an owner reference to it; the watch puts its key on the queue
DeleteSite(key) ==
    /\ envSteps < MaxEnvSteps
    /\ ~IsNil(pages[key])
    /\ LET owned == {o \in children :
                        /\ o.ObjectMeta.Namespace = key.Namespace
                        /\ \E i \in 1..Len(o.ObjectMeta.OwnerReferences) :
                              o.ObjectMeta.OwnerReferences[i] = ControllerRef(pages[key])}
       IN  /\ children' = children \ owned
           /\ written' = {w \in written :
                            \A o \in owned : <<w[1], w[2], w[3]>> # ChildId(o)}
    /\ pages' = [pages EXCEPT ![key] = NilObj]
    /\ queue' = queue \cup {key}
    /\ inputsChanged' = [inputsChanged EXCEPT ![key] = [since |-> TRUE, during |-> TRUE]]
    /\ envSteps' = envSteps + 1
    /\ UNCHANGED settingsStore
    /\ EnvUnchanged

\* a user creates or changes the Setting of a namespace; no HugoPage owns it, so no
\* key is put on the queue
ApplySetting(ns, spec) ==
    /\ envSteps < MaxEnvSteps
    /\ settingsStore[ns] # Setting(ns, spec)
    /\ settingsStore' = [settingsStore EXCEPT ![ns] = Setting(ns, spec)]
    /\ inputsChanged' = [key \in Keys |->
                            IF key.Namespace = ns THEN [since |-> TRUE, during |-> TRUE]
                            ELSE inputsChanged[key]]
    /\ envSteps' = envSteps + 1
    /\ UNCHANGED <<pages, children, queue, written>>
    /\ EnvUnchanged

DeleteSetting(ns) ==
    /\ envSteps < MaxEnvSteps
    /\ ~IsNil(settingsStore[ns])
    /\ settingsStore' = [settingsStore EXCEPT ![ns] = NilObj]
    /\ inputsChanged' = [key \in Keys |->
                            IF key.Namespace = ns THEN [since |-> TRUE, during |-> TRUE]
                            ELSE inputsChanged[key]]
    /\ envSteps' = envSteps + 1
    /\ UNCHANGED <<pages, children, queue, written>>
    /\ EnvUnchanged

\* a resource some other actor creates under a name an upsert derives: no owner
\* reference, labels and annotations of its own
ForeignObject(kind, namespace, name) ==
    [ZeroObject(kind) EXCEPT
        !.ObjectMeta = [Name |-> name, Namespace |-> namespace,
                        Labels |-> [app |-> "manual", component |-> "", page |-> <<>>],
                        Annotations |-> {<<"note", "manual">>},
                        OwnerReferences |-> <<>>]]

ForeignCreate(kind, key) ==
    /\ envSteps < MaxEnvSteps
    /\ Stored(children, kind, key.Namespace, ChildName(kind, [Name |-> key.Name])) = {}
    /\ children' = children \cup
                      {ForeignObject(kind, key.Namespace, ChildName(kind, [Name |-> key.Name]))}
    /\ envSteps' = envSteps + 1
    /\ UNCHANGED <<pages, settingsStore, queue, inputsChanged, written>>
    /\ EnvUnchanged

\* the periodic resync of the cache puts the key of a HugoPage on the queue; a key added
\* while a pass runs waits for the worker, so the timer is taken to fire between passes
Resync(key) ==
    /\ ~IsNil(pages[key])
    /\ key \notin queue
    /\ \A k \in Keys : pc[k] = "idle"
    /\ queue' = queue \cup {key}
    /\ UNCHANGED <<pages, settingsStore, children, inputsChanged, written, envSteps>>
    /\ EnvUnchanged

Next ==
    \/ \E key \in Keys : StartReconcile(key)
    \/ \E key \in Keys : GetPage(key)
    \/ \E key \in Keys : GetSettings(key)
    \/ \E key \in Keys : UpsertGet(key)
    \/ \E key \in Keys : UpsertCreate(key)
    \/ \E key \in Keys : UpsertUpdate(key)
    \/ \E key \in EnvKeys, spec \in PageSpecs : ApplySite(key, spec)
    \/ \E key \in EnvKeys : DeleteSite(key)
    \/ \E ns \in Namespaces, spec \in SettingSpecs : ApplySetting(ns, spec)
    \/ \E ns \in Namespaces : DeleteSetting(ns)
    \/ \E kind \in Kinds, key \in EnvKeys : ForeignCreate(kind, key)
    \/ \E key \in Keys : Resync(key)

Spec == Init /\ [][Next]_vars

----------------------------------------------------------------------------
(* The derivations applied on their own: the names and labels of the five  *)
(* children, the Ingress, the rendered nginx.conf.  The inputs are drawn   *)
(* from sets wider than the ones the controller runs on above.             *)

\* HugoPage names
ProbeNames ==
    { <<"a">>, <<"x">>, <<"c", "o", "n", "f", "-", "a">>, <<"x", "-", "s", "v", "c">>,
      <<"a", ".", "b">>, <<"b", "l", "o", "g">> }

\* HugoPageSpec.URL values
ProbeURLs == { <<"d", "o", "c", "s", ".", "e", "x", "a", "m", "p", "l", "e", ".", "c", "o", "m">>, <<"d", ".", "e">> }

ProbeEndpoints == { <<"h", "t", "t", "p", "s", ":", "/", "/", "s", "3", ".", "e", "x", "a", "m", "p", "l", "e", ".", "c", "o", "m">>, <<"s", "3">> }

ProbeBuckets == { <<"m", "y", "-", "b", "u", "c", "k", "e", "t">>, <<"b", "k">> }

\* SettingSpec.ProxyURL values: unset, set
ProbeProxyURLs == { <<>>, <<"c", "d", "n">> }

ProbeAnnotations ==
    { {}, {<<"cert-manager.io/issuer", "letsencrypt">>,
           <<"nginx.ingress.kubernetes.io/ssl-redirect", "true">>} }

ProbePage(name, url) ==
    [Name |-> name, Namespace |-> "ns1",
     Spec |-> [Repository |-> "repo1", URL |-> url, CronInterval |-> "*/5 * * * *"]]

ProbeSetting(enable, annotations, endpoint, bucket, proxy) ==
    Setting("ns1",
        [TLS |-> [Enable |-> enable, Annotations |-> annotations],
         IngressClassName |-> "nginx",
         S3Config |-> [Endpoint |-> endpoint, BucketName |-> bucket,
                       SecretName |-> "s3-secret", AccessKeyIDRef |-> "AccessKeyId",
                       AccessKeyRef |-> "AccessKey"],
         ProxyURL |-> proxy,
         NginxProxyReplica |-> 1])

InitDerive ==
    /\ pages = [key \in Keys |-> NilObj]
    /\ settingsStore = [ns \in Namespaces |-> NilObj]
    /\ children = {}
    /\ queue = {}
    /\ pc = [key \in Keys |-> "idle"]
    /\ local = [key \in Keys |-> ZeroLocal]
    /\ last = [key \in Keys |-> NoPass]
    /\ prev = [key \in Keys |-> NoPass]
    /\ inputsChanged = [key \in Keys |-> [since |-> FALSE, during |-> FALSE]]
    /\ written = {}
    /\ crashed = FALSE
    /\ passes = 0
    /\ failures = 0
    /\ envSteps = 0
    /\ active = 0
    /\ reconcilerDuration = [l \in HistogramLabels |-> 0]
    /\ \E name \in ProbeNames, other \in ProbeNames, url \in ProbeURLs, enable \in BOOLEAN,
          annotations \in ProbeAnnotations, endpoint \in ProbeEndpoints,
          bucket \in ProbeBuckets, proxy \in ProbeProxyURLs :
            probe = [op |-> "none",
                     a |-> ProbePage(name, url),
                     b |-> ProbePage(other, <<"f", ".", "g">>),
                     settings |-> ProbeSetting(enable, annotations, endpoint, bucket, proxy),
                     out |-> NilObj]

DeriveUnchanged ==
    UNCHANGED <<pages, settingsStore, children, queue, pc, local, last, prev, inputsChanged,
                written, crashed, passes, failures, envSteps, active, reconcilerDuration>>

\* the name under which each upsert reads its child and the ObjectMeta it assigns, for
\* two HugoPages
DeriveNames ==
    /\ probe.op = "none"
    /\ probe' = [probe EXCEPT
                    !.op = "names",
                    !.out = [key |-> [p \in {"a", "b"} |-> [kind \in Kinds |->
                                        ChildName(kind, probe[p])]],
                             meta |-> [p \in {"a", "b"} |-> [kind \in Kinds |->
                                        UpsertObject(kind, ZeroObject(kind), probe[p],
                                                     probe.settings).ObjectMeta]]]]
    /\ DeriveUnchanged

\* upsertPageIngress up to its store write, on an Ingress that Get did not find
BuildIngress ==
    /\ probe.op = "none"
    /\ probe' = [probe EXCEPT
                    !.op = "ingress",
                    !.out = upsertPageIngressObject(ZeroObject("Ingress"), probe.a,
                                                    probe.settings)]
    /\ DeriveUnchanged

\* upsertConfigMap up to its store write, on a ConfigMap that Get did not find
RenderConfigMap ==
    /\ probe.op = "none"
    /\ probe' = [probe EXCEPT
                    !.op = "configmap",
                    !.out = upsertConfigMapObject(ZeroObject("ConfigMap"), probe.a,
                                                  probe.settings)]
    /\ DeriveUnchanged

NextDerive ==
    \/ DeriveNames
    \/ BuildIngress
    \/ RenderConfigMap

SpecDerive == InitDerive /\ [][NextDerive]_vars

----------------------------------------------------------------------------
(* The controller started in a cluster in which another actor has already  *)
(* created a resource under a name the upserts of a Site derive; no store  *)
(* call fails, and the environment makes one more change.                  *)

\* the key whose derived name is taken
AdoptKey == [Namespace |-> "ns1", Name |-> <<"a">>]

\* the controller reference of another owner
OtherControllerRef ==
    [Kind |-> "Other", Name |-> <<"x">>, Controller |-> TRUE, BlockOwnerDeletion |-> TRUE]

\* the resource of the other actor: created by a user, or controlled by another owner
ForeignOwned(kind, key, owned) ==
    [ForeignObject(kind, key.Namespace, ChildName(kind, [Name |-> key.Name])) EXCEPT
        !.ObjectMeta.OwnerReferences = IF owned THEN <<OtherControllerRef>> ELSE <<>>]

InitAdopt ==
    /\ pages \in {f \in [Keys -> {HugoPage(k, sp) : k \in Keys, sp \in PageSpecs}] :
                    \A key \in Keys :
                        IF key \in EnvKeys
                        THEN f[key] \in {HugoPage(key, sp) : sp \in PageSpecs}
                        ELSE f[key] = HugoPage(key, CHOOSE sp \in PageSpecs :
                                                        sp.Repository = "repo1")}
    /\ settingsStore \in
          {f \in [Namespaces -> {Setting(n, sp) : n \in Namespaces, sp \in SettingSpecs}] :
              \A ns \in Namespaces : f[ns] \in {Setting(ns, sp) : sp \in SettingSpecs}}
    /\ \E kind \in Kinds, owned \in BOOLEAN :
          children = {ForeignOwned(kind, AdoptKey, owned)}
    /\ queue = Keys
    /\ pc = [key \in Keys |-> "idle"]
    /\ local = [key \in Keys |-> ZeroLocal]
    /\ last = [key \in Keys |-> NoPass]
    /\ prev = [key \in Keys |-> NoPass]
    /\ inputsChanged = [key \in Keys |-> [since |-> FALSE, during |-> FALSE]]
    /\ written = {}
    /\ crashed = FALSE
    /\ passes = 0
    /\ failures = MaxFailures
    /\ envSteps = MaxEnvSteps - 1
    /\ probe = NoProbe
    /\ active = 0
    /\ reconcilerDuration = [l \in HistogramLabels |-> 0]

SpecAdopt == InitAdopt /\ [][Next]_vars

----------------------------------------------------------------------------
(* The passes under a dispatcher that runs the passes of distinct keys in  *)
(* parallel and the passes of one key one at a time: every Site and every  *)
(* Setting exists, no store call fails and the environment is quiet, so    *)
(* that the passes of the Sites interleave at every store call.            *)

InitConcurrent ==
    /\ pages \in {f \in [Keys -> {HugoPage(k, sp) : k \in Keys, sp \in PageSpecs}] :
                    \A key \in Keys : f[key] \in {HugoPage(key, sp) : sp \in PageSpecs}}
    /\ settingsStore \in
          {f \in [Namespaces -> {Setting(n, sp) : n \in Namespaces, sp \in SettingSpecs}] :
              \A ns \in Namespaces : f[ns] \in {Setting(ns, sp) : sp \in SettingSpecs}}
    /\ children = {}
    /\ queue = Keys
    /\ pc = [key \in Keys |-> "idle"]
    /\ local = [key \in Keys |-> ZeroLocal]
    /\ last = [key \in Keys |-> NoPass]
    /\ prev = [key \in Keys |-> NoPass]
    /\ inputsChanged = [key \in Keys |-> [since |-> FALSE, during |-> FALSE]]
    /\ written = {}
    /\ crashed = FALSE
    /\ passes = 0
    /\ failures = MaxFailures
    /\ envSteps = MaxEnvSteps
    /\ probe = NoProbe
    /\ active = 0
    /\ reconcilerDuration = [l \in HistogramLabels |-> 0]

\* a worker takes a key off the queue and calls Reconcile while passes of other keys run
StartReconcileConcurrent(key) ==
    /\ ~crashed
    /\ key \in queue
    /\ pc[key] = "idle"
    /\ passes < MaxPasses
    /\ queue' = queue \ {key}
    /\ pc' = [pc EXCEPT ![key] = "getPage"]
    /\ local' = [local EXCEPT ![key] = ZeroLocal]
    /\ passes' = passes + 1
    /\ inputsChanged' = [inputsChanged EXCEPT ![key].during = FALSE]
    /\ UNCHANGED <<pages, settingsStore, children, last, prev, written, crashed, failures,
                   envSteps, probe, active, reconcilerDuration>>

NextConcurrent ==
    \/ \E key \in Keys : StartReconcileConcurrent(key)
    \/ \E key \in Keys : GetPage(key)
    \/ \E key \in Keys : GetSettings(key)
    \/ \E key \in Keys : UpsertGet(key)
    \/ \E key \in Keys : UpsertCreate(key)
    \/ \E key \in Keys : UpsertUpdate(key)

SpecConcurrent == InitConcurrent /\ [][NextConcurrent]_vars

----------------------------------------------------------------------------
(* Vocabulary of the properties.                                           *)

\* the order of the child kinds as the specification states it
DocumentedOrder == <<"CronJob", "ConfigMap", "Deployment", "Service", "Ingress">>

DocumentedIndex(kind) == CHOOSE i \in 1..Len(DocumentedOrder) : DocumentedOrder[i] = kind

\* a store call that failed: a read failure other than not-found, a create failure,
\* an update failure
Failed(call) == call.err # NoErr /\ ~(call.op = "Get" /\ call.err = <<"NotFound">>)

NoCallFailed(calls) == \A i \in 1..Len(calls) : ~Failed(calls[i])

SomeCallFailed(calls) == \E i \in 1..Len(calls) : Failed(calls[i])

NoRetryNoError == [Requeue |-> FALSE, RequeueAfter |-> 0, err |-> <<>>]

\* the pass ran all five upserts, none of its store calls failed, and Reconcile returned
CleanSuccess(p) ==
    /\ p.n > 0
    /\ p.end = "returned"
    /\ Len(p.ret) = 5
    /\ NoCallFailed(p.calls)

\* the child of a kind as a pass over (page, settings) has to leave it
Desired(kind, page, settings) == UpsertObject(kind, ZeroObject(kind), page, settings)

\* the instances of a kind stored under the name derived from the key
Instances(ch, kind, key) ==
    {o \in ch : o.Kind = kind /\ o.ObjectMeta.Namespace = key.Namespace
                /\ o.ObjectMeta.Name = ChildName(kind, [Name |-> key.Name])}

HasControllerRefTo(o, key) ==
    /\ o.ObjectMeta.Namespace = key.Namespace
    /\ \E i \in 1..Len(o.ObjectMeta.OwnerReferences) :
          o.ObjectMeta.OwnerReferences[i] =
              [Kind |-> "HugoPage", Name |-> key.Name, Controller |-> TRUE,
               BlockOwnerDeletion |-> TRUE]

----------------------------------------------------------------------------
(* C1..C10: the Reconcile pass.                                            *)

\* C1: a pass for a key whose Site is not found in the store completes normally and
\* returns no-retry, no-error, whether or not a Setting exists in the namespace.
C1_SiteNotFoundReturnsNoRetry ==
    \A key \in Keys :
        (last[key].n > 0 /\ last[key].pageErr = <<"NotFound">>)
            => (last[key].end = "returned" /\ last[key].result = NoRetryNoError)

\* C2: when the Setting named settingName is absent or cannot be read, the pass aborts
\* before any upsert runs: the pass makes no store call on any child resource.
C2_MissingSettingAbortsBeforeUpserts ==
    \A key \in Keys :
        local[key].settingsErr # <<>>
            => (pc[key] = "panicked" /\ crashed /\ local[key].calls = <<>>)

C2_Witness ==
    \E key \in Keys :
        /\ local[key].settingsErr = <<"NotFound">>
        /\ ~IsNil(local[key].page)
        /\ pc[key] = "panicked"

\* C3: within one pass the store calls follow the order CronJob, ConfigMap, Deployment,
\* Service, Ingress, and a child kind is written only after the upsert of every earlier
\* kind has returned without error in the same pass.
C3_UpsertsRunInFixedOrder ==
    \A key \in Keys :
        LET c == local[key].calls
            r == local[key].ret
        IN  /\ \A i, j \in 1..Len(c) :
                  i < j => DocumentedIndex(c[i].kind) <= DocumentedIndex(c[j].kind)
            /\ \A i \in 1..Len(c) :
                  c[i].op \in {"Create", "Update"} =>
                      \A m \in 1..(DocumentedIndex(c[i].kind) - 1) :
                          \E q \in 1..Len(r) :
                              r[q].kind = DocumentedOrder[m] /\ r[q].err = <<>>

C3_Witness ==
    \E key \in Keys :
        LET c == local[key].calls
        IN  /\ Len(c) > 0
            /\ c[Len(c)] = [kind |-> "Ingress", op |-> "Update", err |-> <<>>]
            /\ \A kind \in Kinds : \E i \in 1..Len(c) :
                  c[i].kind = kind /\ c[i].op = "Update" /\ c[i].err = <<>>

\* C4: when a store call of the upsert of a kind fails (read failure other than
\* not-found, create failure, update failure), the pass makes no further store call.
C4_FailureStopsThePass ==
    \A key \in Keys :
        \A i \in 1..Len(local[key].calls) :
            Failed(local[key].calls[i]) => i = Len(local[key].calls)

\* C5: a pass in which an upsert failed returns retry = true with a delay of exactly one
\* minute and a non-nil error.
C5_FailureRequestsRetryAfterOneMinute ==
    \A key \in Keys :
        (last[key].n > 0 /\ last[key].end = "returned" /\ SomeCallFailed(last[key].calls))
            => /\ last[key].result.Requeue
               /\ last[key].result.RequeueAfter = 60
               /\ last[key].result.err # <<>>

\* C6: when Site and Setting are found and all five upserts return without error,
\* Reconcile returns the empty result and no error.
C6_AllSucceedReturnsNoRetry ==
    \A key \in Keys :
        (/\ last[key].n > 0
         /\ ~IsNil(last[key].page)
         /\ ~IsNil(last[key].settings)
         /\ Len(last[key].ret) = 5
         /\ \A i \in 1..5 : last[key].ret[i].err = <<>>)
            => (last[key].end = "returned" /\ last[key].result = NoRetryNoError)

C6_Witness ==
    \E key \in Keys :
        /\ CleanSuccess(last[key])
        /\ \A i \in 1..5 : ~IsNil(last[key].ret[i].obj)
        /\ last[key].result = NoRetryNoError

\* C7: two passes in succession over the same Site and Setting, neither with a failing
\* store call and neither with a change of Site or Setting while it runs or in between,
\* leave the same five children in the store, and every upsert of the second
\* pass returns the resource the same upsert of the first pass returned.
C7_UpsertIsIdempotent ==
    \A key \in Keys :
        (/\ CleanSuccess(prev[key])
         /\ CleanSuccess(last[key])
         /\ last[key].page = prev[key].page
         /\ last[key].settings = prev[key].settings
         /\ ~prev[key].changedDuring
         /\ ~last[key].inputsChanged)
            => /\ last[key].children = prev[key].children
               /\ \A i \in 1..5 : last[key].ret[i] = prev[key].ret[i]

C7_Witness ==
    \E key \in Keys :
        /\ CleanSuccess(prev[key])
        /\ CleanSuccess(last[key])
        /\ last[key].page = prev[key].page
        /\ last[key].settings = prev[key].settings
        /\ ~prev[key].changedDuring
        /\ ~last[key].inputsChanged
        /\ last[key].settings.Spec.TLS.Enable
        /\ Cardinality(last[key].children) = 5
        /\ \E i \in 1..Len(prev[key].calls) : prev[key].calls[i].op = "Create"
        /\ \A i \in 1..Len(last[key].calls) : last[key].calls[i].op # "Create"

\* C8: after a pass in which the upsert of some kind failed, the next pass over the same
\* Site and Setting, unchanged while it runs, in which no store call fails returns success
\* and leaves exactly one instance of each of the five kinds, each at its desired state.
C8_RetryAfterPartialFailureConverges ==
    \A key \in Keys :
        (/\ prev[key].n > 0
         /\ prev[key].end = "returned"
         /\ SomeCallFailed(prev[key].calls)
         /\ last[key].n > 0
         /\ NoCallFailed(last[key].calls)
         /\ last[key].page = prev[key].page
         /\ last[key].settings = prev[key].settings
         /\ ~last[key].changedDuring)
            => /\ last[key].end = "returned"
               /\ last[key].result = NoRetryNoError
               /\ last[key].children =
                     {Desired(kind, last[key].page, last[key].settings) :
                         kind \in {"CronJob", "ConfigMap", "Deployment", "Service", "Ingress"}}
               /\ \A kind \in {"CronJob", "ConfigMap", "Deployment", "Service", "Ingress"} :
                     Cardinality(Instances(last[key].children, kind, key)) = 1

\* the third of the five upserts failed, the first two children were applied, and the
\* retry has converged
C8_Witness ==
    \E key \in Keys :
        /\ prev[key].n > 0
        /\ prev[key].end = "returned"
        /\ Len(prev[key].ret) = 3
        /\ prev[key].ret[3].kind = "Deployment"
        /\ prev[key].ret[3].err # <<>>
        /\ Cardinality(prev[key].children) = 2
        /\ CleanSuccess(last[key])
        /\ last[key].page = prev[key].page
        /\ last[key].settings = prev[key].settings
        /\ ~last[key].changedDuring
        /\ Cardinality(last[key].children) = 5

\* C9: the children that carry a controller owner reference to a Site are exactly the
\* stored children that passes for that Site have created or updated, so the cascade on
\* the owner reference removes the children of the Site and nothing else.
C9_ChildrenCarryControllerReference ==
    /\ \A key \in Keys :
          {o \in children : HasControllerRefTo(o, key)}
              = {o \in children : <<o.Kind, o.ObjectMeta.Namespace, o.ObjectMeta.Name, key>>
                                      \in written}
    /\ \A w \in written :
          \E o \in children :
              <<o.Kind, o.ObjectMeta.Namespace, o.ObjectMeta.Name>> = <<w[1], w[2], w[3]>>

\* two Sites with five children each, one of them written on the update path over a
\* resource that had no owner
C9_Witness ==
    /\ \A key \in Keys :
          Cardinality({o \in children : HasControllerRefTo(o, key)}) = 5
    /\ \E key \in Keys :
          /\ CleanSuccess(last[key])
          /\ \E i \in 1..Len(last[key].calls) :
                last[key].calls[i].op = "Create"
          /\ \E i \in 1..Len(last[key].calls) :
                /\ last[key].calls[i] = [kind |-> "Service", op |-> "Get", err |-> <<>>]
                /\ last[key].n = 1

\* C10: a live Site has at most one instance of each child kind under its derived name,
\* and when a pass for it, with Site and Setting unchanged while it ran, has returned
\* success it has exactly one of each of the five.
C10_ExactlyOneChildPerKind ==
    \A key \in Keys :
        /\ ~IsNil(pages[key]) =>
              \A kind \in {"CronJob", "ConfigMap", "Deployment", "Service", "Ingress"} :
                  Cardinality(Instances(children, kind, key)) <= 1
        /\ (/\ last[key].n > 0
            /\ last[key].end = "returned"
            /\ last[key].result = NoRetryNoError
            /\ ~last[key].changedDuring)
              => \A kind \in {"CronJob", "ConfigMap", "Deployment", "Service", "Ingress"} :
                    Cardinality(Instances(last[key].children, kind, key)) = 1

----------------------------------------------------------------------------
(* C11..C20: the upserts and their effect on the stores.                   *)

\* an upsert that returned a resource and no error
UpsertSucceeded(r) == r.err = <<>> /\ ~IsNil(r.obj)

\* C11: whatever the store held for a child before (nothing, a stale spec, foreign labels
\* or annotations), an upsert that succeeds in a pass over (Site, Setting), unchanged
\* while the pass runs, returns and leaves in the store the child computed from that
\* Site and Setting alone; so after a change of Site or Setting the next successful pass
\* leaves every child at the desired state of the new values.
C11_ChildIsFunctionOfSiteAndSetting ==
    \A key \in Keys :
        (last[key].n > 0 /\ ~last[key].changedDuring) =>
            \A i \in 1..Len(last[key].ret) :
                UpsertSucceeded(last[key].ret[i]) =>
                    LET kind == last[key].ret[i].kind
                        want == UpsertObject(kind, ZeroObject(kind), last[key].page,
                                             last[key].settings)
                    IN  /\ last[key].ret[i].obj = want
                        /\ Instances(last[key].children, kind, key) = {want}

\* a pass over a changed Site found the five children of the old Site and has replaced
\* every one that depends on the changed fields
C11_Witness ==
    \E key \in Keys :
        /\ CleanSuccess(prev[key])
        /\ CleanSuccess(last[key])
        /\ ~last[key].changedDuring
        /\ last[key].page # prev[key].page
        /\ Cardinality(prev[key].children) = 5
        /\ \A i \in 1..Len(last[key].calls) : last[key].calls[i].err = <<>>
        /\ \A i \in 1..5 : UpsertSucceeded(last[key].ret[i])
        /\ \E o \in prev[key].children : o.Kind = "CronJob" /\ o \notin last[key].children
        /\ \E o \in prev[key].children : o.Kind = "Ingress" /\ o \notin last[key].children

\* C12: the names and labels of the five children depend on the name of the Site only,
\* each child is read under the name it is written with, and two Sites of one namespace
\* with distinct names get distinct names and distinct label sets for every child kind.
C12_NamesDeterministicAndCollisionFree ==
    probe.op = "names" =>
        \A kind \in {"CronJob", "ConfigMap", "Deployment", "Service", "Ingress"} :
            /\ \A p \in {"a", "b"} : probe.out.meta[p][kind].Name = probe.out.key[p][kind]
            /\ probe.a.Name = probe.b.Name =>
                  /\ probe.out.meta.a[kind].Name = probe.out.meta.b[kind].Name
                  /\ probe.out.meta.a[kind].Labels = probe.out.meta.b[kind].Labels
            /\ probe.a.Name # probe.b.Name =>
                  /\ probe.out.meta.a[kind].Name # probe.out.meta.b[kind].Name
                  /\ probe.out.meta.a[kind].Labels # probe.out.meta.b[kind].Labels

\* Sites a and conf-a: the ConfigMap of the one has the name of the Deployment of the
\* other, and no two children of one kind share a name
C12_Witness ==
    /\ probe.op = "names"
    /\ probe.a.Name = <<"a">>
    /\ probe.b.Name = <<"c", "o", "n", "f", "-", "a">>
    /\ probe.a.Spec # probe.b.Spec
    /\ probe.out.meta.a["ConfigMap"].Name = probe.out.meta.b["Deployment"].Name
    /\ probe.out.meta.a["ConfigMap"].Name # probe.out.meta.b["ConfigMap"].Name

\* the suffix of the name of the TLS secret
PageSecretSuffix == <<"-", "p", "a", "g", "e", "-", "s", "e", "c", "r", "e", "t">>

\* C13: with TLS enabled in the Setting, the TLS secret of the Ingress is named after the
\* URL of the Site, dots replaced by dashes, followed by -page-secret, whatever the name
\* of the Site; the TLS block lists the URL as host; every TLS annotation of the Setting
\* is on the Ingress.
C13_TLSSecretNamedAfterURL ==
    (probe.op = "ingress" /\ probe.settings.Spec.TLS.Enable) =>
        /\ Len(probe.out.Spec.TLS) = 1
        /\ probe.out.Spec.TLS[1].SecretName =
              [i \in 1..Len(probe.a.Spec.URL) |->
                  IF probe.a.Spec.URL[i] = "." THEN "-" ELSE probe.a.Spec.URL[i]]
                  \o PageSecretSuffix
        /\ probe.out.Spec.TLS[1].Hosts = <<probe.a.Spec.URL>>
        /\ probe.settings.Spec.TLS.Annotations \subseteq probe.out.ObjectMeta.Annotations

\* the document without the fixed text before and after the proxy target
ProxyTarget(doc) == SubSeq(doc, 2, Len(doc) - 1)

\* C14: the proxy target in the nginx.conf of the ConfigMap is the ProxyURL of the Setting
\* when it is set and its storage endpoint otherwise, then /, the bucket name, /, the
\* name of the Site and /.
C14_ProxyTargetIsEndpointBucketSite ==
    probe.op = "configmap" =>
        \E doc \in {d[2] : d \in probe.out.Data} :
            /\ probe.out.Data = {<<"nginx.conf", doc>>}
            /\ ProxyTarget(doc) =
                  (IF probe.settings.Spec.ProxyURL # <<>> THEN probe.settings.Spec.ProxyURL
                   ELSE probe.settings.Spec.S3Config.Endpoint)
                      \o <<"/">> \o probe.settings.Spec.S3Config.BucketName
                      \o <<"/">> \o probe.a.Name \o <<"/">>

\* endpoint https://s3.example.com, bucket my-bucket, site blog, no ProxyURL
C14_Witness ==
    /\ probe.op = "configmap"
    /\ probe.a.Name = <<"b", "l", "o", "g">>
    /\ probe.settings.Spec.ProxyURL = <<>>
    /\ \E d \in probe.out.Data :
          ProxyTarget(d[2]) = <<"h", "t", "t", "p", "s", ":", "/", "/", "s", "3", ".", "e", "x", "a", "m", "p", "l", "e", ".", "c", "o", "m", "/", "m", "y", "-", "b", "u", "c", "k", "e", "t", "/", "b", "l", "o", "g", "/">>

\* the store calls of a pass on the child of a kind
CallsOn(calls, kind) == SelectSeq(calls, LAMBDA c : c.kind = kind)

\* the writes among them that the store accepted
WritesOn(calls, kind) ==
    SelectSeq(calls, LAMBDA c : c.kind = kind /\ c.op \in {"Create", "Update"} /\ c.err = <<>>)

\* C15: an upsert that returns a resource has issued exactly one write, a create when its
\* read returned not-found and an update otherwise; no update follows a create.
C15_OneWritePerUpsert ==
    \A key \in Keys :
        \A i \in 1..Len(local[key].ret) :
            LET r == local[key].ret[i]
                c == CallsOn(local[key].calls, r.kind)
                w == WritesOn(local[key].calls, r.kind)
            IN  UpsertSucceeded(r) =>
                    /\ Len(w) = 1
                    /\ w[1].op = (IF c[1].err = <<"NotFound">> THEN "Create" ELSE "Update")
                    /\ \A j \in 1..Len(c) : c[j].op \in {"Get", w[1].op}

\* C16: an upsert one of whose store calls failed (read failure other than not-found,
\* create failure, update failure) returns no resource and a non-nil error, for each of
\* the five kinds.
C16_FailedUpsertReturnsError ==
    \A key \in Keys :
        \A i \in 1..Len(local[key].ret) :
            LET r == local[key].ret[i]
            IN  SomeCallFailed(CallsOn(local[key].calls, r.kind)) =>
                    (IsNil(r.obj) /\ r.err # <<>>)

\* C17: no step of a Reconcile pass, on any path, changes the HugoPage store or the
\* Setting store; a step of a pass is a step that moves the position of a pass, changes
\* its local variables or starts one.
C17_PassLeavesSiteAndSettingUnchanged ==
    [][(pc' # pc \/ local' # local \/ passes' # passes)
          => UNCHANGED <<pages, settingsStore>>]_vars

\* a pass has run to the end and written five children; Site and Setting are the ones it
\* fetched
C17_Witness ==
    \E key \in Keys :
        /\ CleanSuccess(last[key])
        /\ Cardinality(last[key].children) = 5
        /\ envSteps = 0
        /\ pages[key] = last[key].page
        /\ settingsStore[key.Namespace] = last[key].settings

\* C18: the gauge of active Sites counts the live reconciled Sites: it is at least the
\* number of Sites that exist unchanged since a pass for them returned success, and at
\* most the number of Sites that exist.
C18_GaugeCountsLiveReconciledSites ==
    /\ Cardinality({key \in Keys : /\ ~IsNil(pages[key])
                                    /\ CleanSuccess(last[key])
                                    /\ last[key].result = NoRetryNoError
                                    /\ ~inputsChanged[key].since}) <= active
    /\ active <= Cardinality({key \in Keys : ~IsNil(pages[key])})

\* C19: a pass that finds its Site deleted makes no store call on any child resource, so
\* the children the cascade removed are not created again.
C19_PassForDeletedSiteWritesNothing ==
    \A key \in Keys :
        /\ local[key].pageErr = <<"NotFound">> => local[key].calls = <<>>
        /\ (last[key].n > 0 /\ last[key].pageErr = <<"NotFound">>) =>
              \A i \in 1..Len(last[key].calls) : last[key].calls[i].op \notin {"Create", "Update"}

\* the Site had five children, was deleted with them, and a pass for its key has run with
\* the Setting in place
C19_Witness ==
    \E key \in Keys :
        /\ CleanSuccess(prev[key])
        /\ Cardinality(prev[key].children) = 5
        /\ last[key].n > prev[key].n
        /\ last[key].pageErr = <<"NotFound">>
        /\ ~IsNil(last[key].settings)
        /\ IsNil(pages[key])
        /\ ChildrenOf(children, key) = {}

\* C20: when a pass for a live Site, with Site and Setting unchanged while it ran, returns
\* no-retry, no-error, none of its store calls has failed and each of the five children
\* is in the store as computed from the Site and Setting the pass fetched.
C20_SuccessMeansAllChildrenDesired ==
    \A key \in Keys :
        (/\ last[key].n > 0
         /\ last[key].end = "returned"
         /\ last[key].result = NoRetryNoError
         /\ ~IsNil(last[key].page)
         /\ ~last[key].changedDuring)
            => /\ NoCallFailed(last[key].calls)
               /\ \A kind \in {"CronJob", "ConfigMap", "Deployment", "Service", "Ingress"} :
                     Instances(last[key].children, kind, key) =
                         {UpsertObject(kind, ZeroObject(kind), last[key].page,
                                       last[key].settings)}

----------------------------------------------------------------------------
(* C21..C30: retries, conflicts, interleaving, cross-references.           *)

\* the kinds whose child is missing or not at its desired state at the end of a pass
MissingOrStale(p, key) ==
    {kind \in {"CronJob", "ConfigMap", "Deployment", "Service", "Ingress"} :
        Instances(p.children, kind, key) #
            {UpsertObject(kind, ZeroObject(kind), p.page, p.settings)}}

\* C21: no pass for a live Site with a Setting, both unchanged while it runs, ends
\* without a request for a retry while a child is missing or stale; this is what lets
\* the retries reach the state with all five children at their desired state.
C21_NoPassEndsWithoutRetryWhileChildMissing ==
    \A key \in Keys :
        (/\ last[key].n > 0
         /\ last[key].end = "returned"
         /\ ~IsNil(last[key].page)
         /\ ~IsNil(last[key].settings)
         /\ ~last[key].changedDuring
         /\ MissingOrStale(last[key], key) # {})
            => (last[key].result.Requeue /\ last[key].result.err # <<>>)

\* C22: a pass that goes on to the upserts, which it does when the Setting was fetched,
\* has fetched its Site: no upsert is called with a nil Site.
C22_UpsertNeverCalledWithNilSite ==
    \A key \in Keys :
        (pc[key] \notin {"getPage", "getSettings"}
            /\ local[key].settingsErr = <<>> /\ ~IsNil(local[key].settings))
            => ~IsNil(local[key].page)

\* C23: when the read of a child returned not-found and the child exists when the create
\* is issued, the create fails, the upsert makes no further store call and returns an
\* error and no resource, the child that exists stays as it is with no second instance,
\* and Reconcile asks for a retry.
C23_CreateConflictPropagates ==
    \A key \in Keys :
        \A i \in 1..Len(last[key].calls) :
            (last[key].n > 0 /\ last[key].calls[i].op = "Create"
                /\ last[key].calls[i].err = <<"AlreadyExists">>) =>
                LET kind == last[key].calls[i].kind
                    r == last[key].ret[Len(last[key].ret)]
                IN  /\ i = Len(last[key].calls)
                    /\ last[key].calls[i - 1] = [kind |-> kind, op |-> "Get",
                                                 err |-> <<"NotFound">>]
                    /\ r.kind = kind /\ IsNil(r.obj) /\ r.err # <<>>
                    /\ last[key].end = "returned"
                    /\ last[key].result.Requeue
                    /\ last[key].result.RequeueAfter = 60
                    /\ last[key].result.err = r.err
                    /\ key \in queue \/ pc[key] # "idle"
                    /\ \E o \in last[key].children :
                          /\ Instances(last[key].children, kind, key) = {o}
                          /\ o.ObjectMeta.OwnerReferences = <<>>
                          /\ o.ObjectMeta.Labels.app = "manual"

\* another actor created the Ingress between the Get and the Create of the pass
C23_Witness ==
    \E key \in Keys :
        /\ last[key].n > 0
        /\ Len(last[key].calls) = 14
        /\ last[key].calls[14] = [kind |-> "Ingress", op |-> "Create",
                                   err |-> <<"AlreadyExists">>]
        /\ last[key].result.Requeue
        /\ Cardinality(last[key].children) = 5

C25_InterleavedPassesEqualSequential ==
    (\A key \in Keys : last[key].n > 0 /\ pc[key] = "idle") =>
        /\ \A key \in Keys : CleanSuccess(last[key]) /\ last[key].result = NoRetryNoError
        /\ children =
              {UpsertObject(kind, ZeroObject(kind), pages[key], settingsStore[key.Namespace]) :
                  kind \in {"CronJob", "ConfigMap", "Deployment", "Service", "Ingress"},
                  key \in Keys}

\* each of the two passes started before the other one ended, and both have ended
C25_Witness ==
    /\ \A key \in Keys : pc[key] = "idle" /\ last[key].n = 2 /\ CleanSuccess(last[key])
    /\ Cardinality(children) = 10

\* C26: the five children a pass writes are all computed from the one Site and the one
\* Setting the pass fetched at its start, also when Site or Setting change in the store
\* while the pass runs: every resource the upserts of a successful pass return, and every
\* child of the Site in the store at its end, is the child of that one pair.
C26_ChildrenFromOneSnapshot ==
    \A key \in Keys :
        (/\ last[key].n > 0
         /\ last[key].end = "returned"
         /\ Len(last[key].ret) = 5
         /\ \A i \in 1..5 : UpsertSucceeded(last[key].ret[i]))
            => /\ \A i \in 1..5 :
                     last[key].ret[i].obj =
                         Desired(last[key].ret[i].kind, last[key].page, last[key].settings)
               /\ \A o \in last[key].children :
                     HasControllerRefTo(o, key) =>
                         o = Desired(o.Kind, last[key].page, last[key].settings)

\* the Setting was replaced while the pass ran; the pass wrote all five children from the
\* Setting it had fetched
C26_Witness ==
    \E key \in Keys :
        /\ CleanSuccess(last[key])
        /\ last[key].changedDuring
        /\ ~IsNil(settingsStore[key.Namespace])
        /\ settingsStore[key.Namespace] # last[key].settings
        /\ pages[key] = last[key].page
        /\ Cardinality(last[key].children) = 5
        /\ \A o \in last[key].children :
              o = Desired(o.Kind, last[key].page, last[key].settings)

\* the child of a kind among the children of a Site
TheChild(ch, kind) == CHOOSE o \in ch : o.Kind = kind

\* C27: after a successful pass the children of a Site refer to each other: the selector
\* of the Service is the pod-template label set of the Deployment and of no Deployment
\* written for another Site, the backend of the Ingress is the Service by its name on
\* port 80, which the Service exposes, and the config volume of the Deployment is the
\* ConfigMap by its name.
C27_CrossReferencesResolve ==
    \A key \in Keys :
        (CleanSuccess(last[key]) /\ ~last[key].changedDuring) =>
            /\ \A kind \in {"CronJob", "ConfigMap", "Deployment", "Service", "Ingress"} :
                  \E o \in last[key].children : o.Kind = kind
            /\ LET cm == TheChild(last[key].children, "ConfigMap")
                   dep == TheChild(last[key].children, "Deployment")
                   svc == TheChild(last[key].children, "Service")
                   ing == TheChild(last[key].children, "Ingress")
               IN  /\ svc.Spec.Selector = dep.Spec.TemplateLabels
                   /\ dep.Spec.Selector = dep.Spec.TemplateLabels
                   /\ \A other \in Keys \ {key} :
                         \A o \in children :
                             (o.Kind = "Deployment" /\ HasControllerRefTo(o, other)) =>
                                 o.Spec.TemplateLabels # svc.Spec.Selector
                   /\ Len(ing.Spec.Rules) = 1
                   /\ ing.Spec.Rules[1].Backend = [Name |-> svc.ObjectMeta.Name, Port |-> 80]
                   /\ \E i \in 1..Len(svc.Spec.Ports) :
                         svc.Spec.Ports[i].Port = 80
                             /\ svc.Spec.Ports[i].TargetPort = dep.Spec.ContainerPort
                   /\ dep.Spec.Volume.ConfigMap = cm.ObjectMeta.Name
                   /\ dep.Spec.Volume.Name = dep.Spec.VolumeMount.Name
                   /\ dep.Spec.VolumeMount.ReadOnly

\* two Sites, each with its five children written by a successful pass
C27_Witness ==
    /\ \A key \in Keys :
          /\ CleanSuccess(last[key])
          /\ ~last[key].changedDuring
          /\ \E o \in children : o.Kind = "Deployment" /\ HasControllerRefTo(o, key)
          /\ \E o \in children : o.Kind = "Service" /\ HasControllerRefTo(o, key)
    /\ Cardinality({o \in children : o.Kind = "Deployment"}) = 2

\* a pass has aborted because the Setting was absent or could not be read
AbortedOnSetting == \E key \in Keys : last[key].end = "panicked" /\ last[key].settingsErr # <<>>

\* C28: once a pass has aborted on a missing Setting the process is gone: no pass starts
\* and no pass takes a step, for any Site, whatever is waiting on the queue.
C28_MissingSettingStopsAllPasses ==
    [][AbortedOnSetting =>
          (AbortedOnSetting' /\ crashed' /\ pc' = pc /\ local' = local /\ passes' = passes
              /\ last' = last)]_vars

\* one Site has its five children from a successful pass and waits on the queue; the pass
\* of another Site has aborted on the deleted Setting
C28_Witness ==
    \E key \in Keys, other \in Keys :
        /\ key # other
        /\ last[key].end = "panicked"
        /\ last[key].settingsErr = <<"NotFound">>
        /\ crashed
        /\ CleanSuccess(last[other])
        /\ Cardinality(ChildrenOf(children, other)) = 5
        /\ other \in queue

\* the endpoint the proxy is configured with
EffectiveEndpoint(settings) ==
    IF settings.Spec.ProxyURL # <<>> THEN settings.Spec.ProxyURL
    ELSE settings.Spec.S3Config.Endpoint

\* C29: the nginx.conf a pass writes proxies to the ProxyURL of the Setting when it is set
\* and to its storage endpoint otherwise; the S3_ENDPOINT of the CronJob the pass writes is
\* the storage endpoint, whether or not ProxyURL is set.
C29_ProxyURLOverridesProxyOnly ==
    \A key \in Keys :
        \A i \in 1..Len(last[key].ret) :
            LET r == last[key].ret[i]
                settings == last[key].settings
            IN  UpsertSucceeded(r) =>
                    /\ r.kind = "ConfigMap" =>
                          \A d \in r.obj.Data :
                              LET eff == EffectiveEndpoint(settings)
                              IN  SubSeq(ProxyTarget(d[2]), 1, Len(eff) + 1) = eff \o <<"/">>
                    /\ r.kind = "CronJob" =>
                          /\ r.obj.Spec.Env.S3_ENDPOINT = settings.Spec.S3Config.Endpoint
                          /\ \A o \in Instances(last[key].children, "CronJob", key) :
                                HasControllerRefTo(o, key) =>
                                    o.Spec.Env.S3_ENDPOINT = settings.Spec.S3Config.Endpoint

\* a pass over a Setting with ProxyURL set has written a CronJob with the storage endpoint
\* and a ConfigMap that proxies to the ProxyURL
C29_Witness ==
    \E key \in Keys :
        /\ CleanSuccess(last[key])
        /\ last[key].settings.Spec.ProxyURL = <<"c", "d", "n">>
        /\ \E o \in last[key].children :
              /\ o.Kind = "CronJob"
              /\ o.Spec.Env.S3_ENDPOINT = <<"s", "3">>
        /\ \E o \in last[key].children :
              /\ o.Kind = "ConfigMap"
              /\ \E d \in o.Data : SubSeq(ProxyTarget(d[2]), 1, 4) = <<"c", "d", "n", "/">>

\* an Ingress without TLS entry and without any TLS annotation a Setting can carry
WithoutTLS(o) ==
    /\ o.Spec.TLS = <<>>
    /\ \A sp \in SettingSpecs : o.ObjectMeta.Annotations \cap sp.TLS.Annotations = {}

----------------------------------------------------------------------------
(* C31..C32: adoption of foreign resources, the duration histogram.        *)

\* C31: an upsert makes no ownership check: when the Update of an upsert succeeds on a
\* resource stored under the derived name without a controller reference to the Site
\* (created by a user, or controlled by another owner), the store then holds under that
\* name the child computed from Site and Setting alone, with the Site as its only and
\* controlling owner; and the deletion of a Site removes every resource that carries a
\* controller reference to it.
C31_UpsertAdoptsForeignResource ==
    [][\A key \in Keys :
          /\ (/\ pc[key] = "update"
               /\ Len(local'[key].calls) = Len(local[key].calls) + 1
               /\ local'[key].calls[Len(local'[key].calls)].err = <<>>)
                => LET kind == UpsertOrder[local[key].k]
                       name == ChildName(kind, local[key].page)
                       old == Stored(children, kind, key.Namespace, name)
                       want == Desired(kind, local[key].page, local[key].settings)
                   IN  (\E f \in old : ~HasControllerRefTo(f, key))
                          => /\ Stored(children', kind, key.Namespace, name) = {want}
                             /\ want.ObjectMeta.OwnerReferences =
                                    <<ControllerRef(local[key].page)>>
                             /\ HasControllerRefTo(want, key)
          /\ (~IsNil(pages[key]) /\ IsNil(pages'[key]))
                => \A o \in children : HasControllerRefTo(o, key) => o \notin children']_vars

\* the first pass of the Site found the resource of another owner under a derived name,
\* updated it and the four others it created; the Site was then deleted, and nothing is
\* left under its derived names
C31_Witness ==
    /\ prev[AdoptKey].n = 0
    /\ CleanSuccess(last[AdoptKey])
    /\ Cardinality(last[AdoptKey].children) = 5
    /\ \A o \in last[AdoptKey].children : HasControllerRefTo(o, AdoptKey)
    /\ \E kind \in Kinds :
          /\ \E i \in 1..Len(last[AdoptKey].calls) :
                last[AdoptKey].calls[i] = [kind |-> kind, op |-> "Get", err |-> <<>>]
          /\ \A i \in 1..Len(last[AdoptKey].calls) :
                last[AdoptKey].calls[i].kind = kind => last[AdoptKey].calls[i].op # "Create"
    /\ IsNil(pages[AdoptKey])
    /\ ChildrenOf(children, AdoptKey) = {}

\* C32: a pass that returns, with success or with a retry, records one sample under the
\* name and namespace of its key at the step at which it returns; the count under the
\* labels of a key changes at no other step than the end of a pass for that key, and then
\* by one.
C32_OneSamplePerInvocation ==
    [][\A key \in Keys :
          LET l == LabelValues(key)
          IN  /\ DOMAIN reconcilerDuration' = HistogramLabels
              /\ (pc[key] # "idle" /\ pc'[key] = "idle")
                    => reconcilerDuration'[l] = reconcilerDuration[l] + 1
              /\ reconcilerDuration'[l] # reconcilerDuration[l]
                    => /\ pc[key] \notin {"idle", "panicked"}
                       /\ pc'[key] \in {"idle", "panicked"}
                       /\ reconcilerDuration'[l] = reconcilerDuration[l] + 1]_vars

\* two passes for a Site have returned, one with a retry after a failed upsert and one
\* with success, and two samples are recorded under its labels, none under the labels of
\* the other Site
C32_Witness ==
    \E key \in Keys, other \in Keys :
        /\ key # other
        /\ prev[key].n > 0
        /\ prev[key].end = "returned"
        /\ prev[key].result.err # <<>>
        /\ SomeCallFailed(prev[key].calls)
        /\ CleanSuccess(last[key])
        /\ reconcilerDuration[LabelValues(key)] = 2
        /\ reconcilerDuration[LabelValues(other)] = 0

====
